---- MODULE Spec2Model ----
(***************************************************************************)
(* Model of the Echo backend's real-time subtitle pipeline:                *)
(*   echo/ws.py    room registry, sequence counters, broadcast, heartbeat  *)
(*   echo/main.py  lecture_socket, the per-connection handler              *)
(*   echo/tasks.py the in-process task queue and its workers               *)
(*   echo/utterances.py  create_utterance / get_max_seq                    *)
(*   echo/asr.py, echo/translate.py  the results of transcribe and         *)
(*                 translate_text                                          *)
(*                                                                         *)
(* The program runs on one asyncio event loop.  A coroutine runs without   *)
(* interruption until it really suspends (network or database I/O, a       *)
(* contended lock, gather): `running` is the coroutine that holds the      *)
(* loop, 0 when the loop is free to resume any ready task.  asyncio.Lock   *)
(* is FIFO: `waiters` is its queue, and a release hands the lock to the    *)
(* first waiter.                                                           *)
(***************************************************************************)
EXTENDS Integers, Sequences, FiniteSets, TLC

\* ------------------------------------------------------------------ bounds
NumConns == 2
NumSessions == 2
MaxEmit == 2
\* rows of lecture 1 a previous run of the process may have persisted
MaxPersisted0 == 1
\* direct calls of submit_task (SpecTasks)
MaxSubmit == 3
\* startup() starts two workers
NumWorkers == 2
\* pings one heartbeat task sends
MaxPings == 2
\* the sizes in bytes of the audio frames the clients send: half a second of
\* 16 kHz mono int16, and a short frame that is not a whole number of ms
FrameLens == {16000, 79}

Conns == 1..NumConns
Sessions == 1..NumSessions
Workers == 1..NumWorkers
NoConn == 0

VARIABLES
    pc,          \* pc[c]: where connection c's handler (lecture_socket) stands
    sess,        \* sess[c]: lecture_id of connection c (0 before the handshake)
    running,     \* the handler that holds the event loop, 0 if none
    lock,        \* ws._lock: its holder, 0 if free
    waiters,     \* FIFO queue of handlers waiting for ws._lock
    rooms,       \* ws._rooms: lecture_id -> set of connections (keys present only)
    seqCounters, \* ws._seq_counters: lecture_id -> int (keys present only)
    cur,         \* cur[c]: the seq the handler of c obtained for the frame in hand
    bc,          \* bc[c]: the broadcast call in progress made by c: its arguments,
                 \* its snapshot, the sends not yet ended, the dead connections
                 \* still to remove, and (history) the failed and delivered sends
    outQ,        \* outQ[h]: sends in flight on connection h, in call order
    hb,          \* hb[c]: state of c's heartbeat task
    queue,       \* tasks._queue
    working,     \* working[w]: the task worker w is executing, NoTask if none
    store,       \* the utterances table: set of (lecture_id, seq, source) keys
    issued,      \* history: issued[s] = seqs in the order broadcast was called
    recv,        \* history: recv[h] = seqs of the subtitles delivered to h
    sendFailed,  \* history: a broadcast send to h has failed
    call,        \* call[c]: the ws function c is calling directly (SpecWs only)
    frame,       \* frame[c]: the frame in hand of c's handler: what receive()
                 \* returned, the text of transcribe and of translate_text, the
                 \* code of translate_text, start_ms and end_ms
    cumulative_ms, \* cumulative_ms[c]: the handler's timestamp accumulator
    errors,      \* history: errors[c] = "error" messages sent to connection c
                 \* for the frame in hand of its handler
    emitLog,     \* history: emitLog[s] = the subtitle events of session s in the
                 \* order broadcast was called
    world,       \* what is outside the program: the lectures that exist, the
                 \* kinds and sizes of the frames the clients send, the
                 \* answers transcribe and translate_text can give, whether
                 \* the database answers (db), whether a send to an open
                 \* connection arrives (send), and the credentials the
                 \* clients present (auth)
    qOpen,       \* tasks._queue is not None
    wk,          \* wk[w]: state of the asyncio task of worker w (tasks._workers)
    stop,        \* where stop_workers stands
    taskLog,     \* history: per call of submit_task (by task id), whether the
                 \* task was put into the queue, whether the call raised,
                 \* where stop_workers stood, and the number of times a
                 \* worker dequeued the task to execute it
    auth,        \* auth[c]: what the handshake of c has established: the token
                 \* is valid, the lecture exists, the user is its creator
    closeLog,    \* history: closeLog[c] = why and with which code the handler
                 \* of c called websocket.close
    hbLog,       \* history: hbLog[c] = the pings the heartbeat task of c has
                 \* sent, and whether a ping has failed
    seed         \* history: per session, the last seeding of the counter: whether
                 \* the query succeeded, the value stored, the persisted maximum
                 \* at that moment, and what the first next_seq after it returned

vars == <<pc, sess, running, lock, waiters, rooms, seqCounters, cur, bc, outQ,
          hb, queue, working, store, issued, recv, sendFailed, call, seed,
          frame, cumulative_ms, errors, emitLog, world, qOpen, wk, stop,
          taskLog, auth, closeLog, hbLog>>

\* the handler's locals about frames, and the histories of what it emitted
frameVars == <<frame, cumulative_ms, errors, emitLog, world>>
\* tasks.py: the queue object, the worker tasks, stop_workers
poolVars == <<qOpen, wk, stop>>
\* the history of submit_task and of the workers
logVars == <<taskLog>>
\* the handshake, the close frames and the heartbeat of the connections
hsVars == <<auth, closeLog, hbLog>>

\* a task is create_utterance with its arguments; id names the submission:
\* <<s, i>> for the i-th event of session s, <<0, n>> for the n-th direct call
NoTask == [s |-> 0, seq |-> 0, start_ms |-> 0, end_ms |-> 0, zh |-> "",
           id |-> <<0, 0>>]
NoAuth == [token |-> FALSE, found |-> FALSE, owner |-> FALSE]
NoClose == [why |-> "none", code |-> 0]
NoFrame == [kind |-> "none", len |-> 0, en |-> "", acode |-> 0, zh |-> "",
            tcode |-> 0, start_ms |-> 0, end_ms |-> 0]
NoBc == [s |-> 0, seq |-> 0, excl |-> NoConn, snap |-> {}, pending |-> {},
         dead |-> {}, failed |-> {}, sent |-> {}]
NoSeed == [st |-> "none", db |-> TRUE, val |-> 0, max |-> 0, ret |-> 0]

\* ----------------------------------------------------------------- helpers
RECURSIVE SetMax(_)
SetMax(S) ==
    IF S = {} THEN 0
    ELSE LET x == CHOOSE y \in S : TRUE
             m == SetMax(S \ {x})
         IN IF x > m THEN x ELSE m

\* dict helpers: a dict is a function whose DOMAIN is its key set
DictSet(d, k, v) == [x \in DOMAIN d \cup {k} |-> IF x = k THEN v ELSE d[x]]
DictDel(d, k) == [x \in DOMAIN d \ {k} |-> d[x]]

\* _rooms.get(lecture_id): the room, {} standing for None
RoomGet(r, s) == IF s \in DOMAIN r THEN r[s] ELSE {}

\* SELECT COALESCE(MAX(seq), 0) ... WHERE lecture_id = s AND source = 'realtime'
MaxPersisted(st, s) == SetMax({k.seq : k \in {x \in st : x.s = s}})

\* get_max_seq: the persisted maximum, 0 when the query raises
get_max_seq(st, s, dbOk) == IF dbOk THEN MaxPersisted(st, s) ELSE 0

\* the effect of join_room on _rooms (defaultdict(set): the key is created)
join_rooms(r, s, h) == DictSet(r, s, RoomGet(r, s) \cup {h})

\* mutants of leave_rooms: the empty room is kept; the whole room is deleted
leave_rooms_keep(r, s, h) == DictSet(r, s, RoomGet(r, s) \ {h})
leave_rooms_all(r, s, h) == DictDel(r, s)

\* the effect of leave_room on _rooms: discard, delete the key if the room is empty
leave_rooms(r, s, h) ==
    LET room == RoomGet(r, s) \ {h}
    IN IF room = {} THEN DictDel(r, s) ELSE DictSet(r, s, room)

\* mutant of leave_counters: the emptied room clears every session's counter
leave_counters_clear(r, k, s, h) ==
    IF RoomGet(r, s) \ {h} = {} THEN <<>> ELSE k

\* mutant of leave_counters: the counter is popped by every leave
leave_counters_always(r, k, s, h) == DictDel(k, s)

\* the effect of leave_room on _seq_counters: popped when the room is empty
leave_counters(r, k, s, h) ==
    IF RoomGet(r, s) \ {h} = {} THEN DictDel(k, s) ELSE k

\* mutant of has_counter: init_seq_counter reads the storage every time
has_counter_never(k, s) == FALSE

\* init_seq_counter: `lecture_id not in _seq_counters`, negated
has_counter(k, s) == s \in DOMAIN k

\* the value next_seq stores and returns
next_value(k, s) == (IF s \in DOMAIN k THEN k[s] ELSE 0) + 1

\* asr.transcribe: text, silence (empty text, no code), or a failure (no
\* model, timeout, exception: empty text and code 2001)
AsrOutcomes == {"text", "silence", "fail"}
transcribe(r) ==
    [text |-> IF r = "text" THEN "en" ELSE "",
     code |-> IF r = "fail" THEN 2001 ELSE 0]

\* mutant of translate_text: a failure still carries a text
translate_text_stale(r) ==
    [text |-> "zh", code |-> IF r = "fail" THEN 3001 ELSE 0]

\* translate.translate_text: the translation, or a failure (not configured,
\* API error, empty result, timeout after the retries, exception: empty text
\* and code 3001)
TranslateOutcomes == {"ok", "fail"}
translate_text(r) ==
    [text |-> IF r = "ok" THEN "zh" ELSE "",
     code |-> IF r = "fail" THEN 3001 ELSE 0]

\* lecture_socket: result.get("code") == 2001
asr_failed(result) == result.code = 2001

\* mutant of no_text: a frame without text is not skipped
no_text_never(result) == FALSE

\* lecture_socket: not text_en
no_text(result) == result.text = ""

\* lecture_socket: len(frame) // 32
frame_duration_ms(n) == n \div 32

\* mutant of send_error: the error message goes to every connection
send_error_all(e, c) == [h \in DOMAIN e |-> e[h] + 1]

\* lecture_socket: the error message is sent on the handler's own websocket
send_error(e, c) == [e EXCEPT ![c] = @ + 1]

\* the row INSERT writes for a task
Row(t) == [s |-> t.s, seq |-> t.seq, start_ms |-> t.start_ms,
           end_ms |-> t.end_ms, zh |-> t.zh]

\* mutant of submit_queue: the task is put without looking at _queue
submit_queue_unchecked(q, open, t) == Append(q, t)

\* submit_task: put_nowait on the unbounded queue, nothing when _queue is None
\* (RuntimeError)
submit_queue(q, open, t) == IF open THEN Append(q, t) ELSE q

\* mutant of task_failed: the failed task is put back
task_failed_retry(q, t) == Append(q, t)

\* _worker: a task that raised is logged, the queue is left as it is
task_failed(q, t) == q

\* mutant of deliver_cancel: the worker swallows the cancellation
deliver_cancel_swallow(st) == st

\* _worker: CancelledError at its await ends the loop
deliver_cancel(st) == IF st = "cancelling" THEN "exited" ELSE st

\* mutant of recipients: the message goes to every connection, in the room or
\* not
recipients_all(room, excl) == Conns \ {excl}

\* broadcast: connections = list(room), and _send_to_one sends to each of them
\* but `exclude`
recipients(room, excl) == room \ {excl}

\* the credentials a client can present: the token of the lecture's creator,
\* the token of another user, no token or one that verify_token rejects
Owner == [token |-> TRUE, owner |-> TRUE]
OtherUser == [token |-> TRUE, owner |-> FALSE]
NoToken == [token |-> FALSE, owner |-> FALSE]

\* mutant of handshake_result: the creator is not compared with the user
handshake_result_anyone(tokenOk, found, owner) ==
    IF ~tokenOk THEN "unauthorized"
    ELSE IF ~found THEN "not_found"
    ELSE "ok"

\* lecture_socket: authenticate_ws, get_lecture, creator_id == user_id, each
\* failure closing the connection and returning
handshake_result(tokenOk, found, owner) ==
    IF ~tokenOk THEN "unauthorized"
    ELSE IF ~found THEN "not_found"
    ELSE IF ~owner THEN "forbidden"
    ELSE "ok"

\* the code of websocket.close for each way the handler ends the connection
close_code(why) ==
    CASE why = "unauthorized" -> 1008
      [] why = "not_found" -> 1008
      [] why = "forbidden" -> 1008
      [] why = "internal" -> 1011

\* ws._lock ------------------------------------------------------------------
\* c may enter the critical section now: it runs and the lock is free, or it
\* waited and the lock was handed to it
HasLock(c, p, pw) ==
    \/ pc[c] = p /\ running = c /\ lock = 0
    \/ pc[c] = pw /\ running = 0 /\ lock = c

\* mutant of Release: the lock is freed and no waiter is woken
Release_lost ==
    lock' = 0 /\ waiters' = waiters

\* leaving `async with _lock`: the first waiter, if any, gets the lock
Release ==
    IF waiters = <<>> THEN lock' = 0 /\ waiters' = waiters
    ELSE lock' = Head(waiters) /\ waiters' = Tail(waiters)

\* c finds the lock taken and queues up (a suspension)
Blocks(c, p, pw) ==
    /\ pc[c] = p /\ running = c /\ lock # 0
    /\ waiters' = Append(waiters, c)
    /\ pc' = [pc EXCEPT ![c] = pw]
    /\ running' = 0
    /\ UNCHANGED lock

\* c has been through join_room (its heartbeat task exists from then on)
Joined(h) == hb[h] # "none"

RECURSIVE SumLen(_, _)
SumLen(f, S) ==
    IF S = {} THEN 0
    ELSE LET x == CHOOSE y \in S : TRUE IN Len(f[x]) + SumLen(f, S \ {x})

\* the number of subtitle events emitted so far, all sessions together
Emitted == SumLen(issued, Sessions)

\* the module-level state of ws.py and the handlers' state: nothing connected
InitShared ==
    /\ auth = [c \in Conns |-> NoAuth]
    /\ closeLog = [c \in Conns |-> NoClose]
    /\ hbLog = [c \in Conns |-> [sent |-> 0, failed |-> FALSE]]
    /\ pc = [c \in Conns |-> "idle"]
    /\ sess = [c \in Conns |-> 0]
    /\ running = 0
    /\ lock = 0
    /\ waiters = <<>>
    /\ rooms = <<>>
    /\ seqCounters = <<>>
    /\ cur = [c \in Conns |-> 0]
    /\ bc = [c \in Conns |-> NoBc]
    /\ outQ = [c \in Conns |-> <<>>]
    /\ hb = [c \in Conns |-> "none"]
    /\ queue = <<>>
    /\ working = [w \in Workers |-> NoTask]
    /\ issued = [s \in Sessions |-> <<>>]
    /\ recv = [c \in Conns |-> <<>>]
    /\ sendFailed = [c \in Conns |-> FALSE]
    /\ call = [c \in Conns |-> "none"]
    /\ seed = [s \in Sessions |-> NoSeed]
    /\ frame = [c \in Conns |-> NoFrame]
    /\ cumulative_ms = [c \in Conns |-> 0]
    /\ errors = [c \in Conns |-> 0]
    /\ emitLog = [s \in Sessions |-> <<>>]
    /\ stop = "none"
    /\ taskLog = <<>>

\* the rows a previous run of the process left for lecture 1: half-second
\* frames, translated
PersistedRow(i) == [s |-> 1, seq |-> i, start_ms |-> (i - 1) * 500,
                    end_ms |-> i * 500, zh |-> "zh"]

\* the application is serving: startup() has run start_workers.  The clients
\* stream half-second frames of speech, the ASR model and the translation
\* service answer; the database and the network can fail.
Init ==
    /\ InitShared
    /\ \E k \in 0..MaxPersisted0 : store = {PersistedRow(i) : i \in 1..k}
    /\ qOpen = TRUE
    /\ wk = [w \in Workers |-> "running"]
    /\ world = [lectures |-> Sessions, kinds |-> {"audio"}, lens |-> {16000},
                asr |-> {"text"}, translate |-> {"ok"}, db |-> BOOLEAN,
                send |-> BOOLEAN, auth |-> {Owner, NoToken}]

\* ------------------------------------------------------- lecture_socket
\* accept, authenticate_ws, get_lecture, the creator check: a connection that
\* fails one of them is closed (1008) and never touches the shared state.
\* Connections are interchangeable and so are lecture ids: both are taken in
\* the order of their numbers.
Handshake(c) ==
    /\ pc[c] = "idle" /\ running = 0
    /\ IF c = 1 THEN TRUE ELSE pc[c - 1] # "idle"
    /\ \E s \in Sessions, a \in world.auth :
          LET found == s \in world.lectures
              res == handshake_result(a.token, found, a.owner)
          IN /\ IF s = 1 THEN TRUE ELSE \E d \in Conns : sess[d] = s - 1
             /\ auth' = [auth EXCEPT ![c] =
                            [token |-> a.token, found |-> a.token /\ found,
                             owner |-> a.token /\ found /\ a.owner]]
             /\ IF res = "ok"
                THEN /\ pc' = [pc EXCEPT ![c] = "init"]
                     /\ sess' = [sess EXCEPT ![c] = s]
                     /\ running' = c
                     /\ UNCHANGED closeLog
                ELSE /\ pc' = [pc EXCEPT ![c] = "closed"]
                     /\ closeLog' = [closeLog EXCEPT ![c] =
                                        [why |-> res, code |-> close_code(res)]]
                     /\ UNCHANGED <<sess, running>>
    /\ UNCHANGED <<lock, waiters, rooms, seqCounters, cur, bc, outQ, hb, queue,
                   working, store, issued, recv, sendFailed, seed, hbLog>>

\* init_seq_counter up to its await: the lock is taken; a session that has a
\* counter is left alone, otherwise the lock stays held across get_max_seq
InitEnter(c) ==
    /\ HasLock(c, "init", "init_wait")
    /\ IF has_counter(seqCounters, sess[c])
       THEN /\ Release
            /\ pc' = [pc EXCEPT ![c] = "join"]
            /\ running' = c
       ELSE /\ lock' = c
            /\ pc' = [pc EXCEPT ![c] = "init_db"]
            /\ running' = 0
            /\ UNCHANGED waiters
    /\ UNCHANGED <<sess, rooms, seqCounters, cur, bc, outQ, hb, queue, working,
                   store, issued, recv, sendFailed, seed>>

\* get_max_seq answers: the counter is seeded and the lock released
InitDb(c) ==
    /\ pc[c] = "init_db" /\ running = 0
    /\ \E dbOk \in world.db :
          LET m == get_max_seq(store, sess[c], dbOk)
          IN /\ seqCounters' = DictSet(seqCounters, sess[c], m)
             /\ seed' = [seed EXCEPT ![sess[c]] =
                            [st |-> "fresh", db |-> dbOk, val |-> m,
                             max |-> MaxPersisted(store, sess[c]), ret |-> 0]]
    /\ Release
    /\ pc' = [pc EXCEPT ![c] = "join"]
    /\ running' = c
    /\ UNCHANGED <<sess, rooms, cur, bc, outQ, hb, queue, working, store, issued,
                   recv, sendFailed>>

init_seq_counter(c) ==
    \/ InitEnter(c)
    \/ InitDb(c)
    \/ /\ Blocks(c, "init", "init_wait")
       /\ UNCHANGED <<sess, rooms, seqCounters, cur, bc, outQ, hb, queue, working,
                      store, issued, recv, sendFailed, seed>>

\* join_room, then the heartbeat task is created and the welcome send awaited
join_room(c) ==
    \/ /\ HasLock(c, "join", "join_wait")
       /\ rooms' = join_rooms(rooms, sess[c], c)
       /\ Release
       /\ hb' = [hb EXCEPT ![c] = "running"]
       /\ pc' = [pc EXCEPT ![c] = "welcome"]
       /\ running' = 0
       /\ UNCHANGED <<sess, seqCounters, cur, bc, outQ, queue, working, store,
                      issued, recv, sendFailed, seed>>
    \/ /\ Blocks(c, "join", "join_wait")
       /\ UNCHANGED <<sess, rooms, seqCounters, cur, bc, outQ, hb, queue, working,
                      store, issued, recv, sendFailed, seed>>

\* the welcome send_json: it succeeds, raises WebSocketDisconnect, or raises
\* another exception
Welcome(c) ==
    /\ pc[c] = "welcome" /\ running = 0
    /\ \E r \in {"ok", "disconnect", "error"} :
          /\ pc' = [pc EXCEPT ![c] = CASE r = "ok" -> "recv"
                                      [] r = "disconnect" -> "leave"
                                      [] OTHER -> "close1011"]
          /\ running' = IF r = "disconnect" THEN c ELSE 0
    /\ UNCHANGED <<sess, lock, waiters, rooms, seqCounters, cur, bc, outQ, hb,
                   queue, working, store, issued, recv, sendFailed, seed>>

\* frames with a text on their way to next_seq
TextInHand ==
    Cardinality({c \in Conns : pc[c] \in {"translate", "seq", "seq_wait", "bcast"}})
\* From receive() to next_seq the handler touches nothing but its own locals
\* and its own socket, so what the other tasks do while it waits for
\* transcribe, translate_text or the error send is what they can do before
\* receive() returns: the handler keeps the loop over these waits.

\* websocket.receive() returns the text "pong" or another text: continue; or
\* it returns an audio frame of some length, which is handed to transcribe
Receive(c) ==
    /\ pc[c] = "recv" /\ running = 0
    /\ \E k \in world.kinds :
          \E n \in (IF k = "audio" THEN world.lens ELSE {0}) :
             frame' = [frame EXCEPT ![c] = [NoFrame EXCEPT !.kind = k, !.len = n]]
    /\ pc' = [pc EXCEPT ![c] = IF frame'[c].kind = "audio" THEN "asr" ELSE "continue"]
    /\ running' = c
    /\ UNCHANGED <<sess, lock, waiters, rooms, seqCounters, cur, bc, outQ, hb,
                   queue, working, store, issued, recv, sendFailed, seed,
                   cumulative_ms, errors, emitLog, world>>
    /\ UNCHANGED <<poolVars, logVars>>

\* transcribe answers and the handler looks at the result: code 2001 and the
\* error message is sent, no text and the frame is skipped, otherwise
\* translate_text is called
Transcribe(c) ==
    /\ pc[c] = "asr" /\ running = c
    /\ \E r \in world.asr :
          LET result == transcribe(r)
          IN /\ r = "text" => Emitted + TextInHand < MaxEmit
             /\ frame' = [frame EXCEPT ![c].en = result.text,
                                       ![c].acode = result.code]
             /\ pc' = [pc EXCEPT ![c] = IF asr_failed(result) THEN "errsend"
                                        ELSE IF no_text(result) THEN "continue"
                                        ELSE "translate"]
    /\ UNCHANGED <<sess, running, lock, waiters, rooms, seqCounters, cur, bc, outQ,
                   hb, queue, working, store, issued, recv, sendFailed, seed,
                   cumulative_ms, errors, emitLog, world>>
    /\ UNCHANGED <<poolVars, logVars>>

\* the send_json of the error message ends: sent, or the send raises and the
\* loop is left
ErrSend(c) ==
    /\ pc[c] = "errsend" /\ running = c
    /\ \E r \in {"ok", "disconnect", "error"} :
          /\ pc' = [pc EXCEPT ![c] = CASE r = "ok" -> "continue"
                                      [] r = "disconnect" -> "leave"
                                      [] OTHER -> "close1011"]
          /\ running' = IF r = "error" THEN 0 ELSE c
          /\ errors' = IF r = "ok" THEN send_error(errors, c) ELSE errors
          /\ frame' = IF r = "ok" THEN frame ELSE [frame EXCEPT ![c] = NoFrame]
    /\ UNCHANGED <<sess, lock, waiters, rooms, seqCounters, cur, bc, outQ, hb,
                   queue, working, store, issued, recv, sendFailed, seed,
                   cumulative_ms, emitLog, world>>
    /\ UNCHANGED <<poolVars, logVars>>

\* continue: the frame is dropped and receive() is awaited again
Continue(c) ==
    /\ pc[c] = "continue" /\ running = c
    /\ pc' = [pc EXCEPT ![c] = "recv"]
    /\ running' = 0
    /\ frame' = [frame EXCEPT ![c] = NoFrame]
    /\ errors' = [errors EXCEPT ![c] = 0]
    /\ UNCHANGED <<sess, lock, waiters, rooms, seqCounters, cur, bc, outQ, hb,
                   queue, working, store, issued, recv, sendFailed, seed,
                   cumulative_ms, emitLog, world>>
    /\ UNCHANGED <<poolVars, logVars>>

\* translate_text answers; a failure is only logged, and the handler goes on
\* to next_seq
Translate(c) ==
    /\ pc[c] = "translate" /\ running = c
    /\ \E r \in world.translate :
          frame' = [frame EXCEPT ![c].zh = translate_text(r).text,
                                 ![c].tcode = translate_text(r).code]
    /\ pc' = [pc EXCEPT ![c] = "seq"]
    /\ UNCHANGED <<sess, running, lock, waiters, rooms, seqCounters, cur, bc, outQ,
                   hb, queue, working, store, issued, recv, sendFailed, seed,
                   cumulative_ms, errors, emitLog, world>>
    /\ UNCHANGED <<poolVars, logVars>>

\* the receive loop ends: WebSocketDisconnect, or another exception (receive
\* after a disconnect message, a failed error send)
RecvExit(c) ==
    /\ pc[c] = "recv" /\ running = 0
    /\ \E r \in {"disconnect", "error"} :
          /\ pc' = [pc EXCEPT ![c] = IF r = "disconnect" THEN "leave" ELSE "close1011"]
          /\ running' = IF r = "disconnect" THEN c ELSE 0
    /\ UNCHANGED <<sess, lock, waiters, rooms, seqCounters, cur, bc, outQ, hb,
                   queue, working, store, issued, recv, sendFailed, seed>>
    /\ UNCHANGED <<frameVars, poolVars, logVars>>

\* next_seq
next_seq(c) ==
    \/ /\ HasLock(c, "seq", "seq_wait")
       /\ LET v == next_value(seqCounters, sess[c])
          IN /\ seqCounters' = DictSet(seqCounters, sess[c], v)
             /\ cur' = [cur EXCEPT ![c] = v]
             /\ seed' = [seed EXCEPT ![sess[c]] =
                            IF @.st = "fresh"
                            THEN [@ EXCEPT !.st = "used", !.ret = v] ELSE @]
       /\ Release
       /\ pc' = [pc EXCEPT ![c] = "bcast"]
       /\ running' = c
       /\ UNCHANGED <<sess, rooms, bc, outQ, hb, queue, working, store, issued,
                      recv, sendFailed>>
    \/ /\ Blocks(c, "seq", "seq_wait")
       /\ UNCHANGED <<sess, rooms, seqCounters, cur, bc, outQ, hb, queue, working,
                      store, issued, recv, sendFailed, seed>>

\* the handler computes start_ms and end_ms from its accumulator and calls
\* broadcast(lecture_id, subtitle_msg): exclude is None
BroadcastCall(c) ==
    /\ pc[c] = "bcast" /\ running = c
    /\ LET start_ms == cumulative_ms[c]
           end_ms == cumulative_ms[c] + frame_duration_ms(frame[c].len)
       IN /\ frame' = [frame EXCEPT ![c].start_ms = start_ms, ![c].end_ms = end_ms]
          /\ cumulative_ms' = [cumulative_ms EXCEPT ![c] = end_ms]
          /\ emitLog' = [emitLog EXCEPT ![sess[c]] =
                            Append(@, [c |-> c, seq |-> cur[c],
                                       len |-> frame[c].len,
                                       start_ms |-> start_ms, end_ms |-> end_ms,
                                       zh |-> frame[c].zh,
                                       tcode |-> frame[c].tcode])]
    /\ issued' = [issued EXCEPT ![sess[c]] = Append(@, cur[c])]
    /\ bc' = [bc EXCEPT ![c] = [NoBc EXCEPT !.s = sess[c], !.seq = cur[c]]]
    /\ pc' = [pc EXCEPT ![c] = "snap"]
    /\ UNCHANGED <<sess, running, lock, waiters, rooms, seqCounters, cur, outQ, hb,
                   queue, working, store, recv, sendFailed, seed, errors, world>>
    /\ UNCHANGED <<poolVars, logVars>>

\* ------------------------------------------------------------ ws.broadcast
\* the snapshot under the lock: no room (or an empty one) and broadcast
\* returns at once; otherwise one _send_to_one per connection is started by
\* gather, and the one for `exclude` returns at once without sending
Snapshot(c) ==
    /\ HasLock(c, "snap", "snap_wait")
    /\ LET room == RoomGet(rooms, bc[c].s)
           to == recipients(room, bc[c].excl)
       IN IF room = {}
          THEN /\ pc' = [pc EXCEPT ![c] = "persist"]
               /\ running' = c
               /\ UNCHANGED <<bc, outQ>>
          ELSE /\ bc' = [bc EXCEPT ![c].snap = room, ![c].pending = to]
               /\ outQ' = [h \in Conns |->
                              IF h \in to
                              THEN Append(outQ[h], [from |-> c, seq |-> bc[c].seq])
                              ELSE outQ[h]]
               /\ pc' = [pc EXCEPT ![c] = "gather"]
               /\ running' = 0
    /\ Release
    /\ UNCHANGED <<sess, rooms, seqCounters, cur, hb, queue, working, store,
                   issued, recv, sendFailed, seed>>

\* mutant of send_to_one: a failed send ends the whole fan-out (no try/except
\* around the send, gather without return_exceptions)
send_to_one_abort(h) ==
    /\ running = 0
    /\ outQ[h] # <<>>
    /\ LET m == Head(outQ[h])
       IN \E ok \in BOOLEAN :
            /\ ok => pc[h] # "closed"
            /\ ~ok => (FALSE \in world.send \/ pc[h] = "closed")
            /\ bc' = [bc EXCEPT ![m.from].pending = IF ok THEN @ \ {h} ELSE {},
                                ![m.from].dead = IF ok THEN @ ELSE @ \cup {h},
                                ![m.from].failed = IF ok THEN @ ELSE @ \cup {h},
                                ![m.from].sent = IF ok THEN @ \cup {h} ELSE @]
            /\ recv' = [recv EXCEPT ![h] = IF ok THEN Append(@, m.seq) ELSE @]
            /\ sendFailed' = [sendFailed EXCEPT ![h] = @ \/ ~ok]
            /\ outQ' = [x \in Conns |->
                          IF x = h THEN Tail(outQ[h])
                          ELSE IF ok THEN outQ[x]
                          ELSE SelectSeq(outQ[x], LAMBDA e : e.from # m.from)]
    /\ UNCHANGED <<pc, sess, running, lock, waiters, rooms, seqCounters, cur, hb,
                   queue, working, store, issued, seed>>

\* _send_to_one(ws) ends for the oldest send in flight on h (one transport
\* completes its writes in call order): delivered, or an error or the timeout
\* and the connection is returned as dead.  Nothing is delivered on a closed
\* connection.
send_to_one(h) ==
    /\ running = 0
    /\ outQ[h] # <<>>
    /\ LET m == Head(outQ[h])
       IN \E ok \in BOOLEAN :
            /\ ok => pc[h] # "closed"
            /\ ~ok => (FALSE \in world.send \/ pc[h] = "closed")
            /\ bc' = [bc EXCEPT ![m.from].pending = @ \ {h},
                                ![m.from].dead = IF ok THEN @ ELSE @ \cup {h},
                                ![m.from].failed = IF ok THEN @ ELSE @ \cup {h},
                                ![m.from].sent = IF ok THEN @ \cup {h} ELSE @]
            /\ recv' = [recv EXCEPT ![h] = IF ok THEN Append(@, m.seq) ELSE @]
            /\ sendFailed' = [sendFailed EXCEPT ![h] = @ \/ ~ok]
    /\ outQ' = [outQ EXCEPT ![h] = Tail(@)]
    /\ UNCHANGED <<pc, sess, running, lock, waiters, rooms, seqCounters, cur, hb,
                   queue, working, store, issued, seed>>

\* gather returns once every _send_to_one has ended
GatherDone(c) ==
    /\ pc[c] = "gather" /\ running = 0
    /\ bc[c].pending = {}
    /\ pc' = [pc EXCEPT ![c] = "clean"]
    /\ running' = c
    /\ UNCHANGED <<sess, lock, waiters, rooms, seqCounters, cur, bc, outQ, hb,
                   queue, working, store, issued, recv, sendFailed, seed>>

\* the body of leave_room(s, h), run by c under the lock
leave_room(s, h) ==
    /\ rooms' = leave_rooms(rooms, s, h)
    /\ seqCounters' = leave_counters(rooms, seqCounters, s, h)

\* the cleanup loop: leave_room for the next dead connection
CleanLeave(c) ==
    /\ bc[c].dead # {}
    /\ \/ /\ HasLock(c, "clean", "clean_wait")
          /\ \E h \in bc[c].dead :
                /\ leave_room(bc[c].s, h)
                /\ bc' = [bc EXCEPT ![c].dead = @ \ {h}]
          /\ Release
          /\ pc' = [pc EXCEPT ![c] = "clean"]
          /\ running' = c
          /\ UNCHANGED <<sess, cur, outQ, hb, queue, working, store, issued, recv,
                         sendFailed, seed>>
       \/ /\ Blocks(c, "clean", "clean_wait")
          /\ UNCHANGED <<sess, rooms, seqCounters, cur, bc, outQ, hb, queue,
                         working, store, issued, recv, sendFailed, seed>>

\* broadcast returns to the handler
BroadcastReturn(c) ==
    /\ pc[c] = "clean" /\ running = c
    /\ bc[c].dead = {}
    /\ pc' = [pc EXCEPT ![c] = "persist"]
    /\ UNCHANGED <<sess, running, lock, waiters, rooms, seqCounters, cur, bc, outQ,
                   hb, queue, working, store, issued, recv, sendFailed, call, seed>>

broadcast(c) ==
    \/ Snapshot(c)
    \/ /\ Blocks(c, "snap", "snap_wait")
       /\ UNCHANGED <<sess, rooms, seqCounters, cur, bc, outQ, hb, queue, working,
                      store, issued, recv, sendFailed, seed>>
    \/ GatherDone(c)
    \/ CleanLeave(c)
    \/ BroadcastReturn(c)

\* ------------------------------------------------- lecture_socket, the rest
\* the index in emitLog of the event in hand of c: its last one
LastEvent(c) ==
    SetMax({i \in DOMAIN emitLog[sess[c]] : emitLog[sess[c]][i].c = c})

\* the history of one call of submit_task with task t
LogSubmit(t) ==
    taskLog' = DictSet(taskLog, t.id,
                       [task |-> t, accepted |-> queue' # queue,
                        raised |-> ~qOpen, stop |-> stop, runs |-> 0])

\* submit_task(create_utterance, ...): put_nowait, then back to receive();
\* RuntimeError when _queue is None, caught by `except Exception`
submit_task(c) ==
    /\ pc[c] = "persist" /\ running = c
    /\ LET t == [s |-> sess[c], seq |-> cur[c], start_ms |-> frame[c].start_ms,
                 end_ms |-> frame[c].end_ms, zh |-> frame[c].zh,
                 id |-> <<sess[c], LastEvent(c)>>]
       IN /\ queue' = submit_queue(queue, qOpen, t)
          /\ LogSubmit(t)
    /\ cur' = [cur EXCEPT ![c] = 0]
    /\ bc' = [bc EXCEPT ![c] = NoBc]
    /\ frame' = [frame EXCEPT ![c] = NoFrame]
    /\ pc' = [pc EXCEPT ![c] = IF qOpen THEN "recv" ELSE "close1011"]
    /\ running' = 0
    /\ UNCHANGED <<sess, lock, waiters, rooms, seqCounters, outQ, hb, working,
                   store, issued, recv, sendFailed, seed, cumulative_ms, errors,
                   emitLog, world>>
    /\ UNCHANGED poolVars

\* except Exception: websocket.close(code=1011) is awaited (an exception of
\* the close itself is passed over), then finally
Close1011(c) ==
    /\ pc[c] = "close1011" /\ running = 0
    /\ pc' = [pc EXCEPT ![c] = "leave"]
    /\ running' = c
    /\ closeLog' = [closeLog EXCEPT ![c] =
                       [why |-> "internal", code |-> close_code("internal")]]
    /\ UNCHANGED <<sess, lock, waiters, rooms, seqCounters, cur, bc, outQ, hb,
                   queue, working, store, issued, recv, sendFailed, seed, auth,
                   hbLog>>

\* mutant of cancel: the task is left running
cancel_noop(h) == h

\* task.cancel(): a running task is cancelled, a finished one is left as it is
cancel(h) == IF h = "running" THEN "cancelled" ELSE h

\* finally: leave_room, then heartbeat_task.cancel()
Teardown(c) ==
    \/ /\ HasLock(c, "leave", "leave_wait")
       /\ leave_room(sess[c], c)
       /\ Release
       /\ hb' = [hb EXCEPT ![c] = cancel(@)]
       /\ pc' = [pc EXCEPT ![c] = "closed"]
       /\ running' = 0
       /\ UNCHANGED <<sess, cur, bc, outQ, queue, working, store, issued, recv,
                      sendFailed, seed>>
    \/ /\ Blocks(c, "leave", "leave_wait")
       /\ UNCHANGED <<sess, rooms, seqCounters, cur, bc, outQ, hb, queue, working,
                      store, issued, recv, sendFailed, seed>>

\* ------------------------------------------------------------ ws.heartbeat
\* mutant of heartbeat_failed: the task goes on after a failed ping
heartbeat_retry(h) == h

\* heartbeat: `except Exception: pass` is outside the loop, the task ends
heartbeat_failed(h) == "done"

\* a ping is sent: the task sleeps again; it touches nothing else
HeartbeatPing(c) ==
    /\ hb[c] = "running" /\ running = 0
    /\ pc[c] # "closed"
    /\ hbLog[c].sent < MaxPings
    /\ hbLog' = [hbLog EXCEPT ![c].sent = @ + 1]
    /\ UNCHANGED <<pc, sess, running, lock, waiters, rooms, seqCounters, cur, bc,
                   outQ, hb, queue, working, store, issued, recv, sendFailed, seed,
                   auth, closeLog>>

\* a ping that cannot be sent ends the task; it touches nothing else
HeartbeatFail(c) ==
    /\ hb[c] = "running" /\ running = 0
    /\ hb' = [hb EXCEPT ![c] = heartbeat_failed(@)]
    /\ hbLog' = [hbLog EXCEPT ![c].failed = TRUE]
    /\ UNCHANGED <<pc, sess, running, lock, waiters, rooms, seqCounters, cur, bc,
                   outQ, queue, working, store, issued, recv, sendFailed, seed,
                   auth, closeLog>>

\* ---------------------------------------------------------- tasks._worker
\* _queue.get() returns a task and the worker starts to execute it
WorkerGet(w) ==
    /\ running = 0
    /\ wk[w] = "running"
    /\ working[w] = NoTask
    /\ queue # <<>>
    /\ working' = [working EXCEPT ![w] = Head(queue)]
    /\ queue' = Tail(queue)
    /\ taskLog' = [taskLog EXCEPT ![Head(queue).id].runs = @ + 1]
    /\ UNCHANGED <<pc, sess, running, lock, waiters, rooms, seqCounters, cur, bc,
                   outQ, hb, store, issued, recv, sendFailed, seed>>
    /\ UNCHANGED <<frameVars, poolVars>>

\* mutant of create_utterance: a plain INSERT, the key is not looked at
create_utterance_dup(st, t, dbOk) == IF dbOk THEN st \cup {Row(t)} ELSE st

\* INSERT ... ON CONFLICT (lecture_id, seq, source) DO NOTHING; an exception
\* is logged and the row is not written
create_utterance(st, t, dbOk) ==
    IF dbOk /\ ~(\E r \in st : r.s = t.s /\ r.seq = t.seq)
    THEN st \cup {Row(t)} ELSE st

\* ORDER BY seq ASC
RECURSIVE SortBySeq(_)
SortBySeq(S) ==
    IF S = {} THEN <<>>
    ELSE LET r == CHOOSE x \in S : \A y \in S : x.seq <= y.seq
         IN <<r>> \o SortBySeq(S \ {r})

\* list_utterances: the rows of the lecture in ascending seq, [] when the
\* query fails
list_utterances(st, s, dbOk) ==
    IF dbOk THEN SortBySeq({r \in st : r.s = s}) ELSE <<>>

\* the execution of the task ends, with or without an exception, and
\* task_done is called; the worker goes back to _queue.get()
WorkerExec(w) ==
    /\ running = 0
    /\ wk[w] = "running"
    /\ working[w] # NoTask
    /\ \E dbOk \in world.db :
          /\ store' = create_utterance(store, working[w], dbOk)
          /\ queue' = IF dbOk THEN queue ELSE task_failed(queue, working[w])
    /\ working' = [working EXCEPT ![w] = NoTask]
    /\ UNCHANGED <<pc, sess, running, lock, waiters, rooms, seqCounters, cur, bc,
                   outQ, hb, issued, recv, sendFailed, seed>>
    /\ UNCHANGED <<frameVars, poolVars, logVars>>

\* CancelledError reaches worker w at its await: in _queue.get(), or in the
\* task it executes, whose INSERT may or may not have been committed
WorkerCancelled(w) ==
    /\ running = 0
    /\ wk[w] = "cancelling"
    /\ wk' = [wk EXCEPT ![w] = deliver_cancel(@)]
    /\ working' = [working EXCEPT ![w] = NoTask]
    /\ \E done \in BOOLEAN :
          /\ done => working[w] # NoTask
          /\ store' = IF done THEN create_utterance(store, working[w], TRUE)
                      ELSE store
    /\ UNCHANGED <<pc, sess, running, lock, waiters, rooms, seqCounters, cur, bc,
                   outQ, hb, queue, issued, recv, sendFailed, call, seed, qOpen,
                   stop>>
    /\ UNCHANGED <<frameVars, logVars, hsVars>>

Next ==
    \/ \E c \in Conns : Handshake(c) /\ UNCHANGED <<call, frameVars, poolVars, logVars>>
    \/ \E c \in Conns : init_seq_counter(c) /\ UNCHANGED <<call, frameVars, poolVars, logVars, hsVars>>
    \/ \E c \in Conns : join_room(c) /\ UNCHANGED <<call, frameVars, poolVars, logVars, hsVars>>
    \/ \E c \in Conns : Welcome(c) /\ UNCHANGED <<call, frameVars, poolVars, logVars, hsVars>>
    \/ \E c \in Conns : next_seq(c) /\ UNCHANGED <<call, frameVars, poolVars, logVars, hsVars>>
    \/ \E c \in Conns : broadcast(c) /\ UNCHANGED <<call, frameVars, poolVars, logVars, hsVars>>
    \/ \E c \in Conns : send_to_one(c) /\ UNCHANGED <<call, frameVars, poolVars, logVars, hsVars>>
    \/ \E c \in Conns : Close1011(c) /\ UNCHANGED <<call, frameVars, poolVars, logVars>>
    \/ \E c \in Conns : Teardown(c) /\ UNCHANGED <<call, frameVars, poolVars, logVars, hsVars>>
    \/ \E c \in Conns : HeartbeatFail(c) /\ UNCHANGED <<call, frameVars, poolVars, logVars>>
    \/ \E c \in Conns : Receive(c) /\ UNCHANGED <<call, hsVars>>
    \/ \E c \in Conns : RecvExit(c) /\ UNCHANGED <<call, hsVars>>
    \/ \E c \in Conns : Transcribe(c) /\ UNCHANGED <<call, hsVars>>
    \/ \E c \in Conns : Translate(c) /\ UNCHANGED <<call, hsVars>>
    \/ \E c \in Conns : BroadcastCall(c) /\ UNCHANGED <<call, hsVars>>
    \/ \E c \in Conns : submit_task(c) /\ UNCHANGED <<call, hsVars>>
    \/ \E w \in Workers : WorkerGet(w) /\ UNCHANGED <<call, hsVars>>
    \/ \E w \in Workers : WorkerExec(w) /\ UNCHANGED <<call, hsVars>>

Spec == Init /\ [][Next]_vars

\* ------------------------------------------------- every kind of frame
\* One lecture, and clients that also send "pong", other texts, silence and
\* frames of two sizes, with an ASR model and a translation service that can
\* fail; the database answers and a send to an open connection arrives.
FrameKinds == {"pong", "text", "audio"}

InitPipe ==
    /\ InitShared
    /\ \E k \in 0..MaxPersisted0 : store = {PersistedRow(i) : i \in 1..k}
    /\ qOpen = TRUE
    /\ wk = [w \in Workers |-> "running"]
    /\ world = [lectures |-> {1}, kinds |-> FrameKinds, lens |-> FrameLens,
                asr |-> AsrOutcomes, translate |-> TranslateOutcomes,
                db |-> {TRUE}, send |-> {TRUE}, auth |-> {Owner, NoToken}]

NextPipe ==
    \/ \E c \in Conns : Handshake(c) /\ UNCHANGED <<call, frameVars, poolVars, logVars>>
    \/ \E c \in Conns : init_seq_counter(c) /\ UNCHANGED <<call, frameVars, poolVars, logVars, hsVars>>
    \/ \E c \in Conns : join_room(c) /\ UNCHANGED <<call, frameVars, poolVars, logVars, hsVars>>
    \/ \E c \in Conns : Welcome(c) /\ UNCHANGED <<call, frameVars, poolVars, logVars, hsVars>>
    \/ \E c \in Conns : next_seq(c) /\ UNCHANGED <<call, frameVars, poolVars, logVars, hsVars>>
    \/ \E c \in Conns : broadcast(c) /\ UNCHANGED <<call, frameVars, poolVars, logVars, hsVars>>
    \/ \E c \in Conns : send_to_one(c) /\ UNCHANGED <<call, frameVars, poolVars, logVars, hsVars>>
    \/ \E c \in Conns : Close1011(c) /\ UNCHANGED <<call, frameVars, poolVars, logVars>>
    \/ \E c \in Conns : Teardown(c) /\ UNCHANGED <<call, frameVars, poolVars, logVars, hsVars>>
    \/ \E c \in Conns : Receive(c) /\ UNCHANGED <<call, hsVars>>
    \/ \E c \in Conns : RecvExit(c) /\ UNCHANGED <<call, hsVars>>
    \/ \E c \in Conns : Transcribe(c) /\ UNCHANGED <<call, hsVars>>
    \/ \E c \in Conns : ErrSend(c) /\ UNCHANGED <<call, hsVars>>
    \/ \E c \in Conns : Continue(c) /\ UNCHANGED <<call, hsVars>>
    \/ \E c \in Conns : Translate(c) /\ UNCHANGED <<call, hsVars>>
    \/ \E c \in Conns : BroadcastCall(c) /\ UNCHANGED <<call, hsVars>>
    \/ \E c \in Conns : submit_task(c) /\ UNCHANGED <<call, hsVars>>
    \/ \E w \in Workers : WorkerGet(w) /\ UNCHANGED <<call, hsVars>>
    \/ \E w \in Workers : WorkerExec(w) /\ UNCHANGED <<call, hsVars>>

SpecPipe == InitPipe /\ [][NextPipe]_vars

\* ------------------------------------------------ the connection lifecycle
\* Clients with every kind of credential, for a lecture that exists and for
\* one that does not, which never send audio: they answer the pings with
\* "pong" until they disconnect or a send to them fails.
InitConn ==
    /\ InitShared
    /\ store = {}
    /\ qOpen = TRUE
    /\ wk = [w \in Workers |-> "running"]
    /\ world = [lectures |-> {1}, kinds |-> {"pong"}, lens |-> {}, asr |-> {},
                translate |-> {}, db |-> BOOLEAN, send |-> BOOLEAN,
                auth |-> {Owner, OtherUser, NoToken}]

NextConn ==
    \/ \E c \in Conns : Handshake(c) /\ UNCHANGED <<call, frameVars, poolVars, logVars>>
    \/ \E c \in Conns : init_seq_counter(c) /\ UNCHANGED <<call, frameVars, poolVars, logVars, hsVars>>
    \/ \E c \in Conns : join_room(c) /\ UNCHANGED <<call, frameVars, poolVars, logVars, hsVars>>
    \/ \E c \in Conns : Welcome(c) /\ UNCHANGED <<call, frameVars, poolVars, logVars, hsVars>>
    \/ \E c \in Conns : Receive(c) /\ UNCHANGED <<call, hsVars>>
    \/ \E c \in Conns : Continue(c) /\ UNCHANGED <<call, hsVars>>
    \/ \E c \in Conns : RecvExit(c) /\ UNCHANGED <<call, hsVars>>
    \/ \E c \in Conns : Close1011(c) /\ UNCHANGED <<call, frameVars, poolVars, logVars>>
    \/ \E c \in Conns : Teardown(c) /\ UNCHANGED <<call, frameVars, poolVars, logVars, hsVars>>
    \/ \E c \in Conns : HeartbeatPing(c) /\ UNCHANGED <<call, frameVars, poolVars, logVars>>
    \/ \E c \in Conns : HeartbeatFail(c) /\ UNCHANGED <<call, frameVars, poolVars, logVars>>

SpecConn == InitConn /\ [][NextConn]_vars

\* ------------------------------------------------ served without startup()
\* The application receives connections while the queue is not running:
\* startup() has not run (the server does not send the lifespan events), so
\* _queue is None and there is no worker.
InitDown ==
    /\ InitShared
    /\ store = {}
    /\ qOpen = FALSE
    /\ wk = [w \in Workers |-> "none"]
    /\ world = [lectures |-> {1}, kinds |-> {"audio"}, lens |-> {16000},
                asr |-> {"text"}, translate |-> {"ok"}, db |-> {TRUE},
                send |-> BOOLEAN, auth |-> {Owner, NoToken}]

NextDown ==
    \/ \E c \in Conns : Handshake(c) /\ UNCHANGED <<call, frameVars, poolVars, logVars>>
    \/ \E c \in Conns : init_seq_counter(c) /\ UNCHANGED <<call, frameVars, poolVars, logVars, hsVars>>
    \/ \E c \in Conns : join_room(c) /\ UNCHANGED <<call, frameVars, poolVars, logVars, hsVars>>
    \/ \E c \in Conns : Welcome(c) /\ UNCHANGED <<call, frameVars, poolVars, logVars, hsVars>>
    \/ \E c \in Conns : next_seq(c) /\ UNCHANGED <<call, frameVars, poolVars, logVars, hsVars>>
    \/ \E c \in Conns : broadcast(c) /\ UNCHANGED <<call, frameVars, poolVars, logVars, hsVars>>
    \/ \E c \in Conns : send_to_one(c) /\ UNCHANGED <<call, frameVars, poolVars, logVars, hsVars>>
    \/ \E c \in Conns : Close1011(c) /\ UNCHANGED <<call, frameVars, poolVars, logVars>>
    \/ \E c \in Conns : Teardown(c) /\ UNCHANGED <<call, frameVars, poolVars, logVars, hsVars>>
    \/ \E c \in Conns : Receive(c) /\ UNCHANGED <<call, hsVars>>
    \/ \E c \in Conns : RecvExit(c) /\ UNCHANGED <<call, hsVars>>
    \/ \E c \in Conns : Transcribe(c) /\ UNCHANGED <<call, hsVars>>
    \/ \E c \in Conns : Translate(c) /\ UNCHANGED <<call, hsVars>>
    \/ \E c \in Conns : BroadcastCall(c) /\ UNCHANGED <<call, hsVars>>
    \/ \E c \in Conns : submit_task(c) /\ UNCHANGED <<call, hsVars>>

SpecDown == InitDown /\ [][NextDown]_vars

\* ------------------------------------------------ ws.py called directly
\* The registry and broadcast under any caller: each connection calls
\* init_seq_counter and join_room (once), broadcast with any exclude at any
\* time, and leave_room (once), in any order, for itself and for its lecture.
InitWs ==
    /\ Init
    /\ store = {}

\* c calls one of the functions
ApiCall(c) ==
    /\ pc[c] = "idle" /\ running = 0
    /\ IF c = 1 THEN TRUE ELSE sess[c - 1] # 0
    /\ \E s \in Sessions :
          /\ IF s = 1 THEN TRUE ELSE \E d \in Conns : sess[d] = s - 1
          /\ sess' = [sess EXCEPT ![c] = IF @ = 0 THEN s ELSE @]
    /\ \E f \in {"init", "join", "leave"} :
          /\ f \in {"init", "join"} => ~Joined(c)
          /\ call' = [call EXCEPT ![c] = f]
          /\ pc' = [pc EXCEPT ![c] = f]
    /\ running' = c
    /\ UNCHANGED <<lock, waiters, rooms, seqCounters, cur, bc, outQ, hb, queue,
                   working, store, issued, recv, sendFailed, seed>>

\* c calls broadcast(lecture_id, message, exclude)
ApiBroadcast(c) ==
    /\ pc[c] = "idle" /\ running = 0
    /\ sess[c] # 0
    /\ Emitted < MaxEmit
    /\ \E e \in Conns \cup {NoConn} :
          bc' = [bc EXCEPT ![c] = [NoBc EXCEPT !.s = sess[c], !.seq = Emitted + 1,
                                               !.excl = e]]
    /\ issued' = [issued EXCEPT ![sess[c]] = Append(@, Emitted + 1)]
    /\ call' = [call EXCEPT ![c] = "snap"]
    /\ pc' = [pc EXCEPT ![c] = "snap"]
    /\ running' = c
    /\ UNCHANGED <<sess, lock, waiters, rooms, seqCounters, cur, outQ, hb, queue,
                   working, store, recv, sendFailed, seed>>

\* the function returns to c
ApiReturn(c) ==
    /\ \/ call[c] = "init" /\ pc[c] = "join" /\ running = c
       \/ call[c] = "join" /\ pc[c] = "welcome" /\ running = 0
       \/ call[c] = "snap" /\ pc[c] = "persist" /\ running = c
    /\ call' = [call EXCEPT ![c] = "none"]
    /\ pc' = [pc EXCEPT ![c] = "idle"]
    /\ bc' = [bc EXCEPT ![c] = NoBc]
    /\ running' = 0
    /\ UNCHANGED <<sess, lock, waiters, rooms, seqCounters, cur, outQ, hb, queue,
                   working, store, issued, recv, sendFailed, seed>>

NextWs ==
    \/ \E c \in Conns : ApiCall(c) /\ UNCHANGED <<frameVars, poolVars, logVars, hsVars>>
    \/ \E c \in Conns : ApiBroadcast(c) /\ UNCHANGED <<frameVars, poolVars, logVars, hsVars>>
    \/ \E c \in Conns : ApiReturn(c) /\ UNCHANGED <<frameVars, poolVars, logVars, hsVars>>
    \/ \E c \in Conns : /\ call[c] = "init" /\ init_seq_counter(c)
                         /\ UNCHANGED <<call, frameVars, poolVars, logVars, hsVars>>
    \/ \E c \in Conns : /\ call[c] = "join" /\ join_room(c)
                         /\ UNCHANGED <<call, frameVars, poolVars, logVars, hsVars>>
    \/ \E c \in Conns : /\ call[c] = "snap" /\ broadcast(c)
                         /\ UNCHANGED <<call, frameVars, poolVars, logVars, hsVars>>
    \/ \E c \in Conns : /\ call[c] = "leave" /\ Teardown(c)
                         /\ UNCHANGED <<call, frameVars, poolVars, logVars, hsVars>>
    \/ \E c \in Conns : send_to_one(c) /\ UNCHANGED <<call, frameVars, poolVars, logVars, hsVars>>

SpecWs == InitWs /\ [][NextWs]_vars

\* ------------------------------------------------ ws._lock under contention
\* The callers of SpecWs, which also call next_seq directly, on a loop that
\* runs every task that is ready.
\* c calls next_seq(lecture_id)
ApiSeq(c) ==
    /\ pc[c] = "idle" /\ running = 0
    /\ sess[c] # 0
    /\ next_value(seqCounters, sess[c]) <= MaxEmit
    /\ call' = [call EXCEPT ![c] = "seq"]
    /\ pc' = [pc EXCEPT ![c] = "seq"]
    /\ running' = c
    /\ UNCHANGED <<sess, lock, waiters, rooms, seqCounters, cur, bc, outQ, hb,
                   queue, working, store, issued, recv, sendFailed, seed>>

\* next_seq returns its number to c
ApiSeqReturn(c) ==
    /\ call[c] = "seq" /\ pc[c] = "bcast" /\ running = c
    /\ call' = [call EXCEPT ![c] = "none"]
    /\ pc' = [pc EXCEPT ![c] = "idle"]
    /\ cur' = [cur EXCEPT ![c] = 0]
    /\ running' = 0
    /\ UNCHANGED <<sess, lock, waiters, rooms, seqCounters, bc, outQ, hb, queue,
                   working, store, issued, recv, sendFailed, seed>>

\* the steps of the call c is in: the event loop resumes the coroutine
Resume(c) ==
    \/ ApiReturn(c) /\ UNCHANGED <<frameVars, poolVars, logVars, hsVars>>
    \/ ApiSeqReturn(c) /\ UNCHANGED <<frameVars, poolVars, logVars, hsVars>>
    \/ /\ call[c] = "init" /\ init_seq_counter(c)
       /\ UNCHANGED <<call, frameVars, poolVars, logVars, hsVars>>
    \/ /\ call[c] = "join" /\ join_room(c)
       /\ UNCHANGED <<call, frameVars, poolVars, logVars, hsVars>>
    \/ /\ call[c] = "seq" /\ next_seq(c)
       /\ UNCHANGED <<call, frameVars, poolVars, logVars, hsVars>>
    \/ /\ call[c] = "snap" /\ broadcast(c)
       /\ UNCHANGED <<call, frameVars, poolVars, logVars, hsVars>>
    \/ /\ call[c] = "leave" /\ Teardown(c)
       /\ UNCHANGED <<call, frameVars, poolVars, logVars, hsVars>>

\* the send in flight on h ends, at the latest by the timeout of wait_for
SendEnds(h) ==
    send_to_one(h) /\ UNCHANGED <<call, frameVars, poolVars, logVars, hsVars>>

\* one lecture, a database that answers, sends that can fail
InitLock ==
    /\ InitShared
    /\ store = {}
    /\ qOpen = TRUE
    /\ wk = [w \in Workers |-> "running"]
    /\ world = [lectures |-> {1}, kinds |-> {}, lens |-> {}, asr |-> {},
                translate |-> {}, db |-> {TRUE}, send |-> BOOLEAN, auth |-> {}]

NextLock ==
    \/ \E c \in Conns : /\ ApiCall(c) /\ sess'[c] \in world.lectures
                         /\ UNCHANGED <<frameVars, poolVars, logVars, hsVars>>
    \/ \E c \in Conns : ApiBroadcast(c) /\ UNCHANGED <<frameVars, poolVars, logVars, hsVars>>
    \/ \E c \in Conns : ApiSeq(c) /\ UNCHANGED <<frameVars, poolVars, logVars, hsVars>>
    \/ \E c \in Conns : Resume(c)
    \/ \E h \in Conns : SendEnds(h)

\* asyncio runs its ready tasks in the order they became ready, so a
\* coroutine that is ready again and again is resumed; a query and a send end
SpecLock ==
    /\ InitLock /\ [][NextLock]_vars
    /\ \A c \in Conns : SF_vars(Resume(c))
    /\ \A h \in Conns : SF_vars(SendEnds(h))

\* ------------------------------------------------ tasks.py called directly
\* The queue under any caller: start_workers, stop_workers and submit_task are
\* called at any time, from the state the module has when it is imported.
connVars == <<pc, sess, running, lock, waiters, rooms, seqCounters, cur, bc,
              outQ, hb, issued, recv, sendFailed, call, seed, hsVars>>

InitTasks ==
    /\ InitShared
    /\ store = {}
    /\ qOpen = FALSE
    /\ wk = [w \in Workers |-> "none"]
    /\ world = [lectures |-> {}, kinds |-> {}, lens |-> {}, asr |-> {},
                translate |-> {}, db |-> BOOLEAN, send |-> {}, auth |-> {}]

\* start_workers: nothing when _queue exists, otherwise a new queue and
\* NumWorkers worker tasks
start_workers ==
    /\ IF qOpen
       THEN UNCHANGED <<queue, qOpen, wk, stop>>
       ELSE /\ queue' = <<>>
            /\ qOpen' = TRUE
            /\ wk' = [w \in Workers |-> "running"]
            /\ stop' = "none"
    /\ UNCHANGED <<connVars, working, store, frameVars, logVars>>

\* task.cancel() for every worker: the cancellation is requested
CancelAll == [w \in Workers |-> IF wk[w] = "running" THEN "cancelling" ELSE wk[w]]

\* stop_workers is called: it returns at once when _workers is None, waits
\* for _queue.join() when the queue is not empty, and otherwise cancels the
\* workers and waits for them
StopBegin ==
    /\ stop \in {"none", "returned"}
    /\ IF \A w \in Workers : wk[w] = "none"
       THEN /\ stop' = "returned"
            /\ UNCHANGED wk
       ELSE IF queue # <<>>
       THEN /\ stop' = "drain"
            /\ UNCHANGED wk
       ELSE /\ stop' = "gather"
            /\ wk' = CancelAll
    /\ UNCHANGED <<connVars, queue, working, store, qOpen, frameVars, logVars>>

\* _queue.join() returns within the timeout: every task got was done
StopDrained ==
    /\ stop = "drain"
    /\ queue = <<>> /\ \A w \in Workers : working[w] = NoTask
    /\ stop' = "gather"
    /\ wk' = CancelAll
    /\ UNCHANGED <<connVars, queue, working, store, qOpen, frameVars, logVars>>

\* wait_for raises TimeoutError: a warning, and the workers are cancelled
StopTimeout ==
    /\ stop = "drain"
    /\ stop' = "gather"
    /\ wk' = CancelAll
    /\ UNCHANGED <<connVars, queue, working, store, qOpen, frameVars, logVars>>

\* gather has every worker's result (its own 2 s timeout cancels the workers
\* again and waits for them as well): _queue = None, _workers = None
StopReturn ==
    /\ stop = "gather"
    /\ \A w \in Workers : wk[w] = "exited"
    /\ queue' = <<>>
    /\ qOpen' = FALSE
    /\ wk' = [w \in Workers |-> "none"]
    /\ stop' = "returned"
    /\ UNCHANGED <<connVars, working, store, frameVars, logVars>>

stop_workers ==
    \/ StopBegin
    \/ StopDrained
    \/ StopTimeout
    \/ StopReturn

\* submit_task(func, ...) called by anyone
SubmitCall ==
    /\ Cardinality(DOMAIN taskLog) < MaxSubmit
    /\ LET n == Cardinality(DOMAIN taskLog) + 1
           t == [s |-> 1, seq |-> n, start_ms |-> 0, end_ms |-> 500, zh |-> "zh",
                 id |-> <<0, n>>]
       IN /\ queue' = submit_queue(queue, qOpen, t)
          /\ LogSubmit(t)
    /\ UNCHANGED <<connVars, working, store, frameVars, poolVars>>

NextTasks ==
    \/ start_workers
    \/ stop_workers
    \/ SubmitCall
    \/ \E w \in Workers : WorkerGet(w) /\ UNCHANGED <<call, hsVars>>
    \/ \E w \in Workers : WorkerExec(w) /\ UNCHANGED <<call, hsVars>>
    \/ \E w \in Workers : WorkerCancelled(w)

SpecTasks == InitTasks /\ [][NextTasks]_vars

\* the timers of wait_for fire and a cancelled worker is resumed
SpecTasksLive ==
    /\ SpecTasks
    /\ WF_vars(StopDrained \/ StopTimeout)
    /\ WF_vars(StopReturn)
    /\ \A w \in Workers : WF_vars(WorkerCancelled(w))

\* ------------------------------------------------------------------ claims
Range(q) == {q[i] : i \in DOMAIN q}
InRoom(h) == sess[h] # 0 /\ h \in RoomGet(rooms, sess[h])
BroadcastDone(c) == pc[c] = "persist" /\ bc[c].snap # {}

\* C1: no two subtitle events emitted for one session carry the same sequence
\* number.
C1_NoDuplicateSeq ==
    \A s \in Sessions : \A i, j \in DOMAIN issued[s] :
        i # j => issued[s][i] # issued[s][j]

\* C2: a listener that is still joined and to which no send has failed has been
\* delivered consecutive sequence numbers, in increasing order.
C2_GapFreeDelivery ==
    \A h \in Conns :
        (InRoom(h) /\ ~sendFailed[h]) =>
            \A i \in 1..(Len(recv[h]) - 1) : recv[h][i + 1] = recv[h][i] + 1

C2_Witness ==
    \E h \in Conns :
        /\ InRoom(h) /\ ~sendFailed[h] /\ Len(recv[h]) = 2
        /\ \E d \in Conns \ {h} : sendFailed[d]
        /\ \E s \in Sessions : Cardinality({c \in Conns : sess[c] = s /\ Joined(c)}) = 2

\* C3: an initialize that finds no counter seeds it with the persisted maximum
\* M of the session, and the first next_seq after it returns M + 1.
C3_SeedIsPersistedMax ==
    \A s \in Sessions :
        /\ seed[s].st # "none" => seed[s].val = seed[s].max
        /\ seed[s].st = "used" => seed[s].ret = seed[s].max + 1

\* C4: next_seq returns a number only for a session that has a counter, and
\* then the counter's previous value plus one; without a counter it fails and
\* leaves the ledger as it was.
C4_NextSeqNeedsCounter ==
    [][\A c \in Conns :
          (pc[c] \in {"seq", "seq_wait"} /\ pc'[c] # pc[c] /\ pc'[c] # "seq_wait") =>
              IF sess[c] \in DOMAIN seqCounters
              THEN pc'[c] = "bcast" /\ cur'[c] = seqCounters[sess[c]] + 1
              ELSE pc'[c] = "close1011" /\ seqCounters' = seqCounters]_vars

\* C5: every connection of the snapshot other than the excluded one gets one
\* delivery attempt, whatever the other sends do: when the sends are over each
\* of them has either been delivered the message or been found dead, and the
\* broadcast then returns to its caller.
C5_FailureIsolation ==
    \A c \in Conns :
        /\ bc[c].pending \cup bc[c].failed \cup bc[c].sent =
               IF pc[c] \in {"gather", "clean", "clean_wait", "persist"}
               THEN bc[c].snap \ {bc[c].excl} ELSE {}
        /\ bc[c].pending \cap (bc[c].failed \cup bc[c].sent) = {}
        /\ bc[c].failed \cap bc[c].sent = {}
        /\ \A h \in bc[c].sent : bc[c].seq \in Range(recv[h])
        /\ pc[c] \in {"clean", "clean_wait", "persist"} => bc[c].pending = {}

C5_Witness ==
    \E c \in Conns :
        /\ BroadcastDone(c) /\ bc[c].failed # {} /\ bc[c].sent # {}
        /\ \E h \in bc[c].sent : bc[c].seq \in Range(recv[h])

\* C6: when broadcast returns, no connection whose send failed is in the room,
\* and a connection of the snapshot whose send did not fail (it succeeded, or
\* the connection was the excluded one) is missing from the room only if it
\* left by itself or another broadcast found it dead.
C6_OnlyDeadRemoved ==
    \A c \in Conns :
        BroadcastDone(c) =>
            /\ bc[c].failed \cap RoomGet(rooms, bc[c].s) = {}
            /\ \A h \in bc[c].snap \ bc[c].failed :
                   h \in RoomGet(rooms, bc[c].s) \/ pc[h] = "closed" \/ sendFailed[h]

C6_Witness ==
    \E c \in Conns :
        /\ BroadcastDone(c)
        /\ bc[c].failed # {}
        /\ bc[c].excl \in bc[c].snap
        /\ RoomGet(rooms, bc[c].s) = {bc[c].excl}

\* C7: of two events of one session, the one with the lower sequence number
\* is handed to broadcast first.
C7_IssuedInSeqOrder ==
    \A s \in Sessions : \A i, j \in DOMAIN issued[s] :
        issued[s][i] < issued[s][j] => i < j

\* C8: the registry never maps a session to an empty set of connections.
C8_NoEmptyRoom == \A s \in DOMAIN rooms : rooms[s] # {}

C8_Witness ==
    \E c \in Conns :
        /\ pc[c] = "closed" /\ Joined(c) /\ ~sendFailed[c]
        /\ sess[c] \notin DOMAIN rooms

\* C9: leave_room for a connection that is not in the room changes neither
\* the registry nor any sequence counter.
C9_LeaveUnjoinedNoop ==
    [][\A c \in Conns :
          /\ (pc[c] \in {"leave", "leave_wait"} /\ pc'[c] = "closed" /\ ~InRoom(c))
                => (rooms' = rooms /\ seqCounters' = seqCounters)
          /\ \A h \in bc[c].dead \ bc'[c].dead :
                h \notin RoomGet(rooms, bc[c].s)
                    => (rooms' = rooms /\ seqCounters' = seqCounters)]_vars

CounterGet(k, s) == IF s \in DOMAIN k THEN k[s] ELSE 0

\* C11: a fault in one connection's pipeline stays with that connection.  A
\* connection leaves a room only by its own teardown or after a send to it has
\* failed; the end of a send to one connection touches the deliveries and the
\* sends in flight of no other; a snapshot queues a send for every connection
\* of the room, whatever happened to the others; and the room and the counter
\* of a session change only in steps of a connection of that session.
C11_FaultsStayLocal ==
    [][/\ \A d \in Conns :
             (InRoom(d) /\ d \notin RoomGet(rooms', sess[d])) =>
                 \/ pc[d] \in {"leave", "leave_wait"} /\ pc'[d] = "closed"
                 \/ sendFailed[d]
       /\ \A d \in Conns :
             (recv'[d] # recv[d] \/ sendFailed'[d] # sendFailed[d]) =>
                 \A e \in Conns \ {d} :
                     /\ recv'[e] = recv[e]
                     /\ sendFailed'[e] = sendFailed[e]
                     /\ outQ'[e] = outQ[e]
       /\ \A c \in Conns :
             (pc[c] \in {"snap", "snap_wait"} /\ pc'[c] = "gather") =>
                 \A d \in RoomGet(rooms, sess[c]) :
                     Len(outQ'[d]) = Len(outQ[d]) + 1
       /\ \A s \in Sessions :
             (\/ RoomGet(rooms', s) # RoomGet(rooms, s)
              \/ (s \in DOMAIN seqCounters') # (s \in DOMAIN seqCounters)
              \/ CounterGet(seqCounters', s) # CounterGet(seqCounters, s)) =>
                 \E c \in Conns :
                     /\ sess'[c] = s
                     /\ pc'[c] # pc[c] \/ bc'[c].dead # bc[c].dead]_vars

C11_Witness ==
    \E c, d \in Conns :
        /\ pc[c] = "closed" /\ sendFailed[c]
        /\ sess[d] # sess[c] /\ InRoom(d) /\ ~sendFailed[d]
        /\ sess[d] \in DOMAIN seqCounters /\ Len(recv[d]) >= 1

\* what a frame that emits nothing must leave alone
Quiet ==
    /\ seqCounters' = seqCounters
    /\ queue' = queue /\ taskLog' = taskLog /\ store' = store
    /\ outQ' = outQ /\ recv' = recv
    /\ issued' = issued /\ emitLog' = emitLog
    /\ rooms' = rooms

\* C12: a "pong" text frame, or an audio frame for which transcribe returns no
\* text and no code, emits nothing: the handler goes to `continue` and back to
\* receive(), and in these steps no counter, queue, store, send or event log
\* changes.
C12_NoEventForPongOrSilence ==
    [][\A c \in Conns :
          /\ (pc[c] = "recv" /\ pc'[c] # "recv" /\ frame'[c].kind = "pong") =>
                 (pc'[c] = "continue" /\ Quiet)
          /\ (pc[c] = "asr" /\ frame'[c].en = "" /\ frame'[c].acode = 0) =>
                 (pc'[c] = "continue" /\ Quiet)
          /\ (pc[c] = "continue" /\ errors[c] = 0) =>
                 (pc'[c] = "recv" /\ Quiet /\ errors' = errors)]_vars

C12_Witness ==
    \E c \in Conns :
        /\ pc[c] = "continue" /\ frame[c].kind = "audio"
        /\ frame[c].en = "" /\ frame[c].acode = 0
        /\ Len(emitLog[sess[c]]) >= 1
        /\ sess[c] \in DOMAIN seqCounters

\* C13: when transcribe returns code 2001 the handler sends one error message
\* on its own connection and on no other, and, the message sent, goes back to
\* receive(); nothing is broadcast, numbered or queued in these steps.  (When
\* the send itself raises, the connection is gone and the handler leaves the
\* loop, still without touching anything shared.)
C13_AsrErrorToOriginatorOnly ==
    [][\A c \in Conns :
          /\ (pc[c] = "asr" /\ frame'[c].acode = 2001) =>
                 (pc'[c] = "errsend" /\ Quiet /\ errors' = errors)
          /\ pc[c] = "errsend" =>
                 /\ Quiet
                 /\ \/ /\ pc'[c] = "continue"
                       /\ errors' = [errors EXCEPT ![c] = errors[c] + 1]
                    \/ /\ pc'[c] \in {"leave", "close1011"}
                       /\ errors' = errors
          /\ (pc[c] = "continue" /\ errors[c] # 0) =>
                 (errors[c] = 1 /\ pc'[c] = "recv" /\ Quiet)]_vars

C13_Witness ==
    \E c, d \in Conns :
        /\ c # d /\ sess[d] = sess[c] /\ InRoom(c) /\ InRoom(d)
        /\ pc[c] = "continue" /\ frame[c].acode = 2001
        /\ errors[c] = 1 /\ errors[d] = 0
        /\ recv[d] = <<>> /\ queue = <<>> /\ emitLog[sess[c]] = <<>>

\* the handler of event i of session s is still between the broadcast call
\* and submit_task for it
InFrame(s, i) ==
    LET c == emitLog[s][i].c
    IN /\ pc[c] \in {"snap", "snap_wait", "gather", "clean", "clean_wait", "persist"}
       /\ sess[c] = s
       /\ \A j \in DOMAIN emitLog[s] : emitLog[s][j].c = c => j <= i

\* C14: a frame whose translation failed (code 3001) goes on to next_seq, and
\* its event is broadcast with a sequence number and an empty target text and,
\* once the broadcast has returned, submitted to the queue with the same
\* sequence number and an empty target text.
C14_TranslateFailureStillEmits ==
    [][/\ \A c \in Conns : pc[c] = "translate" => pc'[c] = "seq"
       /\ \A s \in Sessions : \A i \in DOMAIN emitLog'[s] :
             LET e == emitLog'[s][i]
             IN e.tcode = 3001 =>
                  /\ e.zh = "" /\ e.seq >= 1
                  /\ IF <<s, i>> \in DOMAIN taskLog'
                     THEN /\ taskLog'[<<s, i>>].accepted
                          /\ taskLog'[<<s, i>>].task.zh = ""
                          /\ taskLog'[<<s, i>>].task.seq = e.seq
                     ELSE InFrame(s, i)']_vars

C14_Witness ==
    \E s \in Sessions : \E i \in DOMAIN emitLog[s] :
        /\ emitLog[s][i].tcode = 3001
        /\ \E d \in Conns : d # emitLog[s][i].c /\ emitLog[s][i].seq \in Range(recv[d])
        /\ <<s, i>> \in DOMAIN taskLog
        /\ \E r \in store : r.s = s /\ r.seq = emitLog[s][i].seq /\ r.zh = ""

\* the events of session s that connection c produced, in order
EventsOf(s, c) == SelectSeq(emitLog[s], LAMBDA e : e.c = c)

\* C15: on a connection that is the only one of its session, the j-th event
\* has start_ms = the end_ms of the one before (0 for the first), end_ms =
\* start_ms + (frame length div 32), and sequence number k + j, k being the
\* persisted maximum when the counter was seeded.
C15_TimestampsAndSeqOnConnection ==
    \A c \in Conns :
        (sess[c] # 0 /\ \A d \in Conns \ {c} : sess[d] # sess[c]) =>
            LET evs == EventsOf(sess[c], c)
            IN \A j \in DOMAIN evs :
                  /\ evs[j].start_ms = IF j = 1 THEN 0 ELSE evs[j - 1].end_ms
                  /\ evs[j].end_ms = evs[j].start_ms + (evs[j].len \div 32)
                  /\ evs[j].seq = seed[sess[c]].max + j

C17_SubmitNeedsRunningPool ==
    [][\A id \in DOMAIN taskLog' \ DOMAIN taskLog :
          IF qOpen
          THEN /\ queue' = Append(queue, taskLog'[id].task)
               /\ taskLog'[id].accepted /\ ~taskLog'[id].raised
          ELSE /\ queue' = queue
               /\ taskLog'[id].raised /\ ~taskLog'[id].accepted]_vars

C17_Witness ==
    \E a, b \in DOMAIN taskLog :
        /\ taskLog[a].accepted /\ taskLog[a].stop = "none"
        /\ taskLog[b].raised /\ taskLog[b].stop = "returned"
        /\ stop = "returned" /\ queue = <<>>

\* C18: no call of submit_task made after stop_workers has begun (while it
\* waits for the queue to drain, while it waits for the cancelled workers, or
\* after it has returned) is accepted.
C18_NoSubmitOnceStopping ==
    \A id \in DOMAIN taskLog :
        taskLog[id].stop \in {"drain", "gather", "returned"} => ~taskLog[id].accepted

\* C19: stop_workers, once begun, returns; when it has returned no worker
\* task exists, no task is queued or in execution, _queue is None, and until
\* start_workers is called again no task is executed and no row is written.
C19_StopTerminates ==
    /\ [](stop = "returned" =>
             /\ ~qOpen /\ queue = <<>>
             /\ \A w \in Workers : wk[w] = "none" /\ working[w] = NoTask)
    /\ [][(stop = "returned" /\ stop' = "returned") =>
             (store' = store /\ working' = working
              /\ \A id \in DOMAIN taskLog : taskLog'[id].runs = taskLog[id].runs)]_vars
    /\ (stop \in {"drain", "gather"}) ~> (stop = "returned")

C19_Witness ==
    /\ stop = "returned"
    /\ \E a, b \in DOMAIN taskLog :
          /\ taskLog[a].accepted /\ taskLog[a].runs = 0
          /\ taskLog[b].accepted /\ taskLog[b].runs = 1
          /\ ~(\E r \in store : r.seq = taskLog[b].task.seq)

\* C20: a task is dequeued at most once; the end of an execution, failed or
\* not, puts nothing back into the queue, leaves the worker running and free
\* for the next task, and changes nothing of any connection.
C20_AtMostOneExecution ==
    [][/\ \A id \in DOMAIN taskLog' : taskLog'[id].runs <= 1
       /\ \A w \in Workers :
             (wk[w] = "running" /\ working[w] # NoTask /\ working'[w] = NoTask) =>
                 /\ queue' = queue
                 /\ wk'[w] = "running"
                 /\ UNCHANGED connVars
                 /\ UNCHANGED errors]_vars

C20_Witness ==
    \E a, b \in DOMAIN taskLog :
        /\ a[2] < b[2]
        /\ taskLog[a].runs = 1 /\ taskLog[b].runs = 1
        /\ \A w \in Workers : working[w] = NoTask
        /\ ~(\E r \in store : r.seq = taskLog[a].task.seq)
        /\ \E r \in store : r.seq = taskLog[b].task.seq

\* C21: the store never holds two rows with the same (lecture, seq); the
\* execution of a write whose key is already there leaves the store as it is
\* and the worker as it is; and what list_utterances returns for a lecture has
\* strictly increasing sequence numbers.
C21_StoreKeyUnique ==
    [][/\ \A r1, r2 \in store' :
             (r1.s = r2.s /\ r1.seq = r2.seq) => r1 = r2
       /\ \A s \in Sessions, dbOk \in BOOLEAN :
             LET l == list_utterances(store', s, dbOk)
             IN \A i \in 1..(Len(l) - 1) : l[i].seq < l[i + 1].seq
       /\ \A w \in Workers :
             (/\ working[w] # NoTask /\ working'[w] = NoTask
              /\ \E r \in store : r.s = working[w].s /\ r.seq = working[w].seq) =>
                 (store' = store /\ wk'[w] = wk[w] /\ queue' = queue)]_vars

C21_Witness ==
    \E id \in DOMAIN taskLog :
        LET t == taskLog[id].task
        IN /\ taskLog[id].runs = 1
           /\ \A w \in Workers : working[w] # t
           /\ Row(t) \notin store
           /\ \E r \in store : r.s = t.s /\ r.seq = t.seq
           /\ Len(list_utterances(store, t.s, TRUE)) >= 2

\* the handler positions that wait for a durable-store operation (get_max_seq)
\* or for the sends to the listeners (gather)
SlowIo == {"init_db", "gather"}

\* C22: no handler holds _lock while it waits for a durable-store operation
\* or for listener sends, and no next_seq call waits for the lock while its
\* holder does such I/O for a different session.
C22_NoIoUnderLock ==
    /\ \A c \in Conns : lock = c => pc[c] \notin SlowIo
    /\ \A c, d \in Conns :
          (pc[c] = "seq_wait" /\ lock = d /\ sess[d] # sess[c]) =>
              pc[d] \notin SlowIo

\* C23: init_seq_counter for a session that has a counter changes nothing: it
\* goes straight on without a query and leaves counters, seeds and store as
\* they are; the query is made only for a session without a counter, and no
\* step of init_seq_counter changes the counter of a session that had one.
C23_InitIdempotent ==
    [][\A c \in Conns :
          pc[c] \in {"init", "init_wait", "init_db"} =>
              /\ (pc[c] # "init_db" /\ pc'[c] = "join") =>
                     /\ sess[c] \in DOMAIN seqCounters
                     /\ seqCounters' = seqCounters /\ seed' = seed
                     /\ store' = store
              /\ pc'[c] = "init_db" => sess[c] \notin DOMAIN seqCounters
              /\ pc'[c] # pc[c] =>
                     \A s \in DOMAIN seqCounters :
                         s \in DOMAIN seqCounters' /\ seqCounters'[s] = seqCounters[s]]_vars

C23_Witness ==
    \E c \in Conns :
        /\ pc[c] = "join" /\ running = c
        /\ seed[sess[c]].st = "used"
        /\ sess[c] \in DOMAIN seqCounters
        /\ seqCounters[sess[c]] > MaxPersisted(store, sess[c])

\* C29: the number of tasks waiting in the queue stays below a capacity: the
\* queue never holds every task that was submitted when MaxSubmit were.
C29_QueueBounded == Len(queue) < MaxSubmit

\* C30: when next_seq runs for a connection in its receive loop, the counter
\* of its session exists and has been seeded by init_seq_counter: the call
\* never starts again from the default 0.
C30_CounterPresentAtNextSeq ==
    [][\A c \in Conns :
          (pc[c] \in {"seq", "seq_wait"} /\ pc'[c] = "bcast") =>
              /\ sess[c] \in DOMAIN seqCounters
              /\ seed[sess[c]].st # "none"
              /\ cur'[c] > seed[sess[c]].val]_vars

\* the number of times x occurs in the sequence q
Count(q, x) == Cardinality({i \in DOMAIN q : q[i] = x})

\* C28: a broadcast sends to connections of its snapshot only: a send in
\* flight, a delivery and a failure are all for a member of the snapshot, so a
\* connection that joins after the snapshot gets nothing of that event; a
\* connection gets one event at most once, sent or still in flight; and a
\* broadcast in progress only moves on towards its return, whatever joins and
\* leaves run meanwhile.
C28_SnapshotOnly ==
    [][/\ \A c \in Conns :
             bc'[c].pending \cup bc'[c].sent \cup bc'[c].failed
                 \subseteq bc'[c].snap \ {bc'[c].excl}
       /\ \A h \in Conns :
             /\ \A i \in DOMAIN outQ'[h] : h \in bc'[outQ'[h][i].from].snap
             /\ recv'[h] # recv[h] =>
                    /\ outQ[h] # <<>>
                    /\ h \in bc[Head(outQ[h]).from].snap
                    /\ recv'[h] = Append(recv[h], Head(outQ[h]).seq)
             /\ \A q \in 1..MaxEmit :
                    Count(recv'[h], q)
                      + Cardinality({i \in DOMAIN outQ'[h] : outQ'[h][i].seq = q}) <= 1
       /\ \A c \in Conns :
             (call[c] = "snap" /\ pc'[c] # pc[c]) =>
                 pc'[c] \in {"snap_wait", "gather", "clean", "clean_wait", "persist",
                             "idle"}]_vars

C28_Witness ==
    \E c, h \in Conns :
        /\ h # c /\ pc[c] = "gather" /\ bc[c].sent # {}
        /\ sess[h] = bc[c].s /\ InRoom(h) /\ h \notin bc[c].snap
        /\ outQ[h] = <<>> /\ bc[c].seq \notin Range(recv[h])

AuthOk == [token |-> TRUE, found |-> TRUE, owner |-> TRUE]

\* C24: the heartbeat task sends ping after ping while it runs and no ping
\* has failed; the first failed ping ends it for good, with no ping after it;
\* and neither a ping nor its failure changes the handler's position, the
\* close record, the rooms or the counters.
C24_HeartbeatOnlyStops ==
    [][\A c \in Conns :
          /\ hbLog'[c].sent # hbLog[c].sent =>
                /\ hbLog'[c].sent = hbLog[c].sent + 1
                /\ hb[c] = "running" /\ hb'[c] = "running" /\ ~hbLog[c].failed
                /\ UNCHANGED <<pc, closeLog, rooms, seqCounters>>
          /\ (hbLog'[c].failed /\ ~hbLog[c].failed) =>
                /\ hb[c] = "running" /\ hb'[c] = "done"
                /\ UNCHANGED <<pc, closeLog, rooms, seqCounters>>
          /\ hbLog[c].failed => (hb'[c] = "done" /\ hbLog'[c] = hbLog[c])
          /\ (hb[c] = "running" /\ hb'[c] # "running") =>
                (hbLog'[c].failed \/ pc'[c] = "closed")]_vars

C24_Witness ==
    \E c \in Conns :
        /\ hbLog[c].sent = MaxPings /\ hbLog[c].failed /\ hb[c] = "done"
        /\ pc[c] = "recv" /\ InRoom(c) /\ closeLog[c] = NoClose
        /\ sess[c] \in DOMAIN seqCounters

\* C25: the close code of an unauthorized termination differs from the one of
\* a not-found or forbidden termination, and both differ from the one of an
\* internal error.
C25_CloseCodesDistinct ==
    \A c, d \in Conns :
        /\ (closeLog[c].why = "unauthorized"
            /\ closeLog[d].why \in {"not_found", "forbidden"}) =>
               closeLog[c].code # closeLog[d].code
        /\ (closeLog[c].why \in {"unauthorized", "not_found", "forbidden"}
            /\ closeLog[d].why = "internal") =>
               closeLog[c].code # closeLog[d].code

\* C26: a handler goes on to init_seq_counter, join_room and the heartbeat
\* only with a valid token, an existing lecture and its creator as user; a
\* handshake that fails closes the connection with a close code and leaves
\* rooms, counters, queue, store and heartbeats as they are.
C26_JoinOnlyAuthorized ==
    [][\A c \in Conns :
          /\ (pc'[c] \notin {"idle", "closed"}
              \/ c \in UNION {RoomGet(rooms', s) : s \in Sessions}
              \/ hb'[c] # "none") => auth'[c] = AuthOk
          /\ (pc[c] = "idle" /\ pc'[c] = "closed") =>
                /\ auth'[c] # AuthOk
                /\ closeLog'[c].code # 0
                /\ UNCHANGED <<rooms, seqCounters, seed, queue, store, hb, sess>>]_vars

C26_Witness ==
    \E c, d \in Conns :
        /\ pc[c] = "closed" /\ closeLog[c].why = "forbidden"
        /\ hb[c] = "none" /\ sess[c] = 0
        /\ InRoom(d) /\ RoomGet(rooms, sess[d]) = {d} /\ hb[d] = "running"

LoopPcs == {"recv", "asr", "errsend", "continue", "translate", "seq",
            "seq_wait", "bcast", "snap", "snap_wait", "gather", "clean",
            "clean_wait", "persist"}

\* C31: a connection whose handler is in its receive loop is a member of the
\* room of its session; in particular a handler that holds a sequence number
\* from next_seq and is about to broadcast is one: a connection that a
\* broadcast has removed after a failed send emits no further event.
C31_EmitterIsMember ==
    \A c \in Conns : pc[c] \in LoopPcs => InRoom(c)

\* C32: stop_workers cancels a worker that is executing a task only when the
\* grace period of its wait for the queue has expired: a task in execution
\* when stop_workers is called runs until it ends or that wait times out,
\* also when the queue itself is empty.
C32_BusyWorkerGetsGrace ==
    [][\A w \in Workers :
          (wk[w] = "running" /\ wk'[w] = "cancelling" /\ working[w] # NoTask) =>
              stop = "drain"]_vars

\* C33: ws._lock cannot deadlock.  No coroutine waits for the lock while it
\* holds it; whoever holds the lock releases it; and on a loop that resumes
\* every ready coroutine each caller of join_room, leave_room,
\* init_seq_counter, next_seq or broadcast that waits for the lock obtains it.
C33_LockNoDeadlock ==
    /\ [](\A c \in Conns : lock = c => c \notin Range(waiters))
    /\ \A c \in Conns : (lock = c) ~> (lock # c)
    /\ \A c \in Conns : (c \in Range(waiters)) ~> (lock = c)

\* a next_seq and a cleanup of broadcast wait while init_seq_counter holds
\* the lock over its query, or a leave_room waits with them
C33_Witness ==
    \E c, d \in Conns :
        /\ lock = d /\ pc[d] = "init_db"
        /\ c \in Range(waiters)
        /\ pc[c] \in {"seq_wait", "clean_wait", "leave_wait"}

====
